---- MODULE Spec2Model ----
(***************************************************************************)
(* Manhwa-Bot: the chapter tracking store, the scheduled chapter check     *)
(* (cogs/Tracking.py), the on-demand check (cogs/Manual_Check.py) and the  *)
(* two content-proxy clients (fetch_json), as one state machine.           *)
(*                                                                         *)
(* Chapter numbers are REAL in the store; the model counts them in whole   *)
(* units 0..MaxChap (an order-preserving image of the floats the upstream  *)
(* serves), so that 'greater', 'equal' and 'lower' all occur.              *)
(***************************************************************************)
EXTENDS Integers, Sequences, FiniteSets, TLC

\* ---------------------------------------------------------------- bounds
\* Highest chapter number the upstream ever serves.
MaxChap == 2
\* External stimuli in one behaviour: adds, upstream changes, on-demand
\* invocations and timer firings of the scheduled task.
MaxEvents == 4

Users == {"u1", "u2"}
Titles == {"A", "B"}
Slugs == {"s1", "s2", "s3"}
NoSlug == "none"
NoHid == "none"

\* -------------------------------------------------------------- variables
VARIABLES
    loaded,        \* cog_load has run: session open, tables created
    tasks,         \* loop tasks started by cog_load (_chapter_check_task)
    ready,         \* bot.wait_until_ready() has returned
    events,        \* stimuli so far (bounds the behaviour)
    clock,         \* CURRENT_TIMESTAMP, advanced by every stamping statement
    online,        \* upstream: the proxy answers 200 (FALSE: every request fails)
    slugOf,        \* upstream: title -> its current slug (NoSlug: not listed)
    chapters,      \* upstream: title -> chapter listing with limit=1 (raw "chap")
    tracking,      \* table chapter_tracking, committed state, in rowid order
    manhwas,       \* table manhwas, committed state, in rowid order
    sPc,           \* _chapter_check_loop: "idle" | "row" | "write" | "notify"
    rows,          \* _chapter_check_loop: rows read by the SELECT
    sIdx,          \* _chapter_check_loop: index of the row being processed
    latest_info,   \* _chapter_check_loop: result of get_latest_chapter for that row
    user_updates,  \* _chapter_check_loop: dict uid -> list, in insertion order
    nIdx,          \* _chapter_check_loop: index into user_updates while sending
    dm,            \* messages delivered by the current or last scheduled pass
    sent,          \* _chapter_check_loop: user.send calls that returned, per user
    mPc,           \* manual_check: "idle" | "row" | "write" | "commit"
    mUser,         \* manual_check: interaction.user.id
    mRows,         \* manual_check: rows read by the SELECT
    mIdx,          \* manual_check: index of the row being processed
    mPending,      \* manual_check: (latest_number, resolved_slug) to be written
    updates,       \* manual_check: list of updates found
    mTxn,          \* manual_check: the connection's open transaction
    reply,         \* manual_check: the followup sent by the last invocation
    followups,     \* manual_check: followup.send calls of this invocation
    sRepeat,       \* history: this scheduled pass directly follows a scheduled pass
    sCalm,         \* history: nothing but the scheduled pass acted since it began
    mRepeat,       \* history: this on-demand pass directly follows one of the same user
    mCalm,         \* history: nothing but the on-demand pass acted since it began
    mPrevFailed,   \* history: the previous on-demand pass replied "failed"
    owed,          \* history: <<user, title, chapter>> persisted by a pass as
                   \*   higher progress and not surfaced to the user since
    fPc,           \* fetch_json: "idle" | "get" | "sleep" | "done"
    fClient,       \* fetch_json: "tracking" (Tracking.py) | "manual" (Manual_Check.py)
    attempt,       \* fetch_json: the loop variable of Tracking's for loop
    fLog,          \* fetch_json: outcome of each request made by this call
    fResult        \* fetch_json: "pending" | "json" | "none" | "raised"

upstreamVars == <<online, slugOf, chapters>>
dbVars == <<tracking, manhwas, clock>>
schedVars == <<sPc, rows, sIdx, latest_info, user_updates, nIdx, dm, sent>>
manualVars == <<mPc, mUser, mRows, mIdx, mPending, updates, mTxn, reply,
               followups>>
histVars == <<sRepeat, sCalm, mRepeat, mCalm, mPrevFailed, owed>>
fetchVars == <<fPc, fClient, attempt, fLog, fResult>>
vars == <<loaded, tasks, ready, events, upstreamVars, dbVars, schedVars, manualVars,
          histVars, fetchVars>>

\* ------------------------------------------------------------ upstream API
\* The raw "chap" field of a chapter: a number, a non-numeric text, or absent.
RawChaps ==
    {[kind |-> "num", val |-> n] : n \in 1..MaxChap}
        \cup {[kind |-> "text", val |-> 0], [kind |-> "none", val |-> 0]}

\* A chapter listing with limit=1: empty, or the latest chapter.
ChapterLists == {<<>>} \cup {<<c>> : c \in RawChaps}

\* GET /comic/{slug}: the comic's internal id (here: its title), or a failure.
ApiComic(slug) ==
    IF online /\ \E t \in Titles : slugOf[t] = slug /\ slug # NoSlug
        THEN CHOOSE t \in Titles : slugOf[t] = slug
        ELSE NoHid

\* GET /comic/{hid}/chapters?limit=1: the listing, empty on any failure.
ApiChapters(hid) ==
    IF online /\ hid \in Titles THEN chapters[hid] ELSE <<>>

\* GET /comic/{slug}/chapters?limit=1 (the on-demand cog's endpoint).
ApiSlugChapters(slug) == ApiChapters(ApiComic(slug))

\* GET /search: the slug of the top result, NoSlug when there is none.
ApiSearch(title) ==
    IF online /\ title \in Titles THEN slugOf[title] ELSE NoSlug

\* ---------------------------------------------------------- Tracking cog
\* Mutant of FloatOrZero: 1.0 when the coercion raises.
FloatOrOne(raw) ==
    IF raw.kind = "num" THEN raw.val ELSE 1

\* float(latest.get("chap") or latest.get("chapter") or 0), 0.0 when it raises.
FloatOrZero(raw) ==
    IF raw.kind = "num" THEN raw.val ELSE 0

\* A lookup that returned None: slug is what the resolution had reached,
\* searched whether it issued the title search.
NoInfo(slug, searched) ==
    [ok |-> FALSE, title |-> "", slug |-> slug, chapter |-> 0,
     searched |-> searched]

\* search_slug: the slug of data[0], None when the search fails or is empty.
SearchSlug(title) == ApiSearch(title)

\* get_latest_chapter: stored slug first, title search as the fallback, then
\* the chapters of the comic's hid.
GetLatestChapter(title, slug) ==
    LET first == ApiComic(slug)
        searched == first = NoHid
        new_slug == SearchSlug(title)
        used == IF searched THEN new_slug ELSE slug
        hid == IF ~searched THEN first
               ELSE IF new_slug = NoSlug THEN NoHid ELSE ApiComic(new_slug)
    IN  IF hid = NoHid \/ ApiChapters(hid) = <<>>
            THEN NoInfo(used, searched)
            ELSE [ok |-> TRUE, title |-> title, slug |-> used,
                  chapter |-> FloatOrZero(ApiChapters(hid)[1]),
                  searched |-> searched]

\* Mutant of SchedAdvanced: >= for >.
SchedAdvancedOrEqual(info, latest_notified) ==
    info.ok /\ info.chapter >= latest_notified

\* if latest_chapter_num > (latest_notified or 0)
SchedAdvanced(info, latest_notified) ==
    info.ok /\ info.chapter > latest_notified


\* user_updates[user_id].append(latest_info), creating the list when absent.
AppendUpdate(uu, user, info) ==
    IF \E i \in 1..Len(uu) : uu[i].user = user
        THEN [i \in 1..Len(uu) |->
                IF uu[i].user = user
                    THEN [uu[i] EXCEPT !.updates = Append(@, info)]
                    ELSE uu[i]]
        ELSE Append(uu, [user |-> user, updates |-> <<info>>])

\* ------------------------------------------------------- Manual_Check cog
\* Mutant of ResolveSlug: the title search comes first.
ResolveSlugSearchFirst(title, current_slug) ==
    IF ApiSearch(title) # NoSlug
        THEN [slug |-> ApiSearch(title), searched |-> TRUE]
        ELSE [slug |-> IF ApiSlugChapters(current_slug) # <<>>
                          THEN current_slug ELSE NoSlug,
              searched |-> TRUE]

\* resolve_slug: the stored slug when its chapter listing is not empty,
\* otherwise the slug of the first search result, otherwise None.
ResolveSlug(title, current_slug) ==
    IF ApiSlugChapters(current_slug) # <<>>
        THEN [slug |-> current_slug, searched |-> FALSE]
        ELSE [slug |-> ApiSearch(title), searched |-> TRUE]

\* float(latest["number"]) after the falsy test: absent and non-numeric
\* numbers are not coercible.
ManualNumber(raw) ==
    IF raw.kind = "num" THEN [ok |-> TRUE, val |-> raw.val]
                        ELSE [ok |-> FALSE, val |-> 0]

\* The row's lookup in manual_check: resolve_slug, get_latest_chapter on the
\* resolved slug, then the coercion; ok is FALSE where the code continues.
ManualLookup(title, slug) ==
    LET res == ResolveSlug(title, slug)
        list == IF res.slug = NoSlug THEN <<>> ELSE ApiSlugChapters(res.slug)
    IN  IF list = <<>> \/ ~ManualNumber(list[1]).ok
            THEN NoInfo(res.slug, res.searched)
            ELSE [ok |-> TRUE, title |-> title, slug |-> res.slug,
                  chapter |-> ManualNumber(list[1]).val,
                  searched |-> res.searched]

\* Mutant of ManualAdvanced: >= for >.
ManualAdvancedOrEqual(info, last_notified) ==
    info.ok /\ info.chapter >= last_notified

\* Mutant of ManualAdvanced: the None tests before the comparison inverted.
ManualAdvancedNoneInverted(info, last_notified) ==
    ~info.ok \/ info.chapter > last_notified

\* if latest_number > last_notified
ManualAdvanced(info, last_notified) ==
    info.ok /\ info.chapter > last_notified

\* ------------------------------------------------------------- the store
\* Mutant of UniquePairs: the table without its UNIQUE constraint.
UniquePairsUnchecked(t) == TRUE

\* UNIQUE(user_id, manhwa_slug)
UniquePairs(t) ==
    \A i, j \in 1..Len(t) :
        (t[i].user = t[j].user /\ t[i].slug = t[j].slug) => i = j

\* SELECT user_id, manhwa_title, manhwa_slug, latest_chapter_notified
\*   FROM chapter_tracking
SelectAll(t) ==
    [i \in 1..Len(t) |->
        [user |-> t[i].user, title |-> t[i].title, slug |-> t[i].slug,
         chapter |-> t[i].chapter]]

\* SELECT manhwa_title, manhwa_slug, latest_chapter_notified
\*   FROM chapter_tracking WHERE user_id = ?
SelectUser(t, user) ==
    LET mine == SelectSeq(t, LAMBDA r : r.user = user)
    IN  [i \in 1..Len(mine) |->
            [title |-> mine[i].title, slug |-> mine[i].slug,
             chapter |-> mine[i].chapter]]

\* Mutant of InsertOrIgnore: INSERT OR REPLACE.
InsertOrReplace(t, user, title, slug, now) ==
    Append(SelectSeq(t, LAMBDA r : ~(r.user = user /\ r.slug = slug)),
           [user |-> user, title |-> title, slug |-> slug,
            chapter |-> 0, time |-> now])

\* INSERT OR IGNORE INTO chapter_tracking (...) VALUES (user, title, slug, 0)
InsertOrIgnore(t, user, title, slug, now) ==
    IF \E i \in 1..Len(t) : t[i].user = user /\ t[i].slug = slug
        THEN t
        ELSE Append(t, [user |-> user, title |-> title, slug |-> slug,
                        chapter |-> 0, time |-> now])

\* Mutant of UpdateBySlug: WHERE manhwa_slug = ? alone.
UpdateBySlugAnyUser(t, user, slug, chapter, now) ==
    [i \in 1..Len(t) |->
        IF t[i].slug = slug
            THEN [t[i] EXCEPT !.chapter = chapter, !.time = now]
            ELSE t[i]]

\* Mutant of UpdateBySlug: ... AND latest_chapter_notified < ?.
UpdateBySlugIfGreater(t, user, slug, chapter, now) ==
    [i \in 1..Len(t) |->
        IF t[i].user = user /\ t[i].slug = slug /\ t[i].chapter < chapter
            THEN [t[i] EXCEPT !.chapter = chapter, !.time = now]
            ELSE t[i]]

\* UPDATE chapter_tracking SET latest_chapter_notified = ?,
\*   last_notified_time = CURRENT_TIMESTAMP WHERE user_id = ? AND manhwa_slug = ?
UpdateBySlug(t, user, slug, chapter, now) ==
    [i \in 1..Len(t) |->
        IF t[i].user = user /\ t[i].slug = slug
            THEN [t[i] EXCEPT !.chapter = chapter, !.time = now]
            ELSE t[i]]

\* UPDATE chapter_tracking SET latest_chapter_notified = ?, manhwa_slug = ?,
\*   last_notified_time = CURRENT_TIMESTAMP WHERE user_id = ? AND manhwa_title = ?
UpdateByTitle(t, user, title, chapter, slug, now) ==
    [i \in 1..Len(t) |->
        IF t[i].user = user /\ t[i].title = title
            THEN [t[i] EXCEPT !.chapter = chapter, !.slug = slug, !.time = now]
            ELSE t[i]]

\* The on-demand connection without a transaction.
NoTxn == [open |-> FALSE, table |-> <<>>]

\* What the on-demand connection sees: its own uncommitted writes, or the
\* committed table.
ManualView == IF mTxn.open THEN mTxn.table ELSE tracking

NoReply == [kind |-> "none", updates |-> <<>>]

\* Mutant of CloseWithoutCommit: every UPDATE is committed as it is executed.
CloseKeepsWrites(committed, txn) ==
    IF txn.open THEN txn.table ELSE committed

\* An exception leaves 'async with aiosqlite.connect(...)' before db.commit():
\* the connection is closed and its open transaction rolled back; the table
\* is what was committed before.
CloseWithoutCommit(committed, txn) == committed

\* Mutant of Followup: nothing is sent when no row advanced.
FollowupSilentWhenEmpty(ups) ==
    IF ups = <<>> THEN NoReply ELSE [kind |-> "summary", updates |-> ups]

\* The followup after the commit: "No new chapters" or the embed with one
\* field per update.
Followup(ups) ==
    IF ups = <<>> THEN [kind |-> "no_new", updates |-> <<>>]
                  ELSE [kind |-> "summary", updates |-> ups]

\* The <<user, title, chapter>> of the rows whose latest_chapter_notified a
\* write raised (old and new are the table before and after it).
Raised(old, new) ==
    {<<old[i].user, old[i].title, new[i].chapter>> :
        i \in {j \in 1..Len(old) : new[j].chapter > old[j].chapter}}

\* The <<user, title, chapter>> a message with these entries shows its user.
Shown(user, list) ==
    {<<user, list[e].title, list[e].chapter>> : e \in 1..Len(list)}

\* ------------------------------------------------------------------ Init
\* The state after construction: an empty database file, the cogs not yet
\* loaded, both titles listed upstream with a first chapter.
InitStore ==
    /\ events = 0
    /\ clock = 1
    /\ online = TRUE
    /\ slugOf = [t \in Titles |-> IF t = "A" THEN "s1" ELSE "s2"]
    /\ chapters = [t \in Titles |-> <<[kind |-> "num", val |-> 1]>>]
    /\ tracking = <<>>
    /\ manhwas = <<>>
    /\ sPc = "idle"
    /\ rows = <<>>
    /\ sIdx = 1
    /\ latest_info = NoInfo(NoSlug, FALSE)
    /\ user_updates = <<>>
    /\ nIdx = 1
    /\ dm = [u \in Users |-> <<>>]
    /\ sent = [u \in Users |-> 0]
    /\ mPc = "idle"
    /\ mUser = "u1"
    /\ mRows = <<>>
    /\ mIdx = 1
    /\ mPending = NoInfo(NoSlug, FALSE)
    /\ updates = <<>>
    /\ mTxn = NoTxn
    /\ reply = NoReply
    /\ followups = 0
    /\ sRepeat = FALSE
    /\ sCalm = FALSE
    /\ mRepeat = FALSE
    /\ mCalm = FALSE
    /\ mPrevFailed = FALSE
    /\ owed = {}

InitFetch ==
    /\ fPc = "idle"
    /\ fClient = "tracking"
    /\ attempt = 1
    /\ fLog = <<>>
    /\ fResult = "pending"

Init ==
    /\ loaded = FALSE
    /\ tasks = 0
    /\ ready = FALSE
    /\ InitStore
    /\ InitFetch

\* ------------------------------------------------------------- lifecycle
\* cog_load: opens the session, creates the tables and starts the loop task
\* (which waits in _before_chapter_check).
CogLoad ==
    /\ ~loaded
    /\ loaded' = TRUE
    /\ tasks' = IF tasks = 0 THEN tasks + 1 ELSE tasks
    /\ UNCHANGED <<ready, events, upstreamVars, dbVars, schedVars, manualVars,
                   histVars, fetchVars>>

\* The gateway connection is up: wait_until_ready returns, commands arrive.
BotReady ==
    /\ loaded /\ ~ready
    /\ ready' = TRUE
    /\ UNCHANGED <<loaded, tasks, events, upstreamVars, dbVars, schedVars,
                   manualVars, histVars, fetchVars>>

\* ------------------------------------------------------ upstream changes
\* The upstream publishes, removes or renumbers the latest chapter of a title.
Publish(t, list) ==
    /\ events < MaxEvents
    /\ list # chapters[t]
    /\ events' = events + 1
    /\ chapters' = [chapters EXCEPT ![t] = list]
    /\ sCalm' = FALSE
    /\ mCalm' = FALSE
    /\ UNCHANGED <<loaded, tasks, ready, online, slugOf, dbVars, schedVars, manualVars,
                   sRepeat, mRepeat, mPrevFailed, owed, fetchVars>>

\* The upstream re-slugs or delists a title; slugs stay unique per comic.
Reslug(t, s) ==
    /\ events < MaxEvents
    /\ s # slugOf[t]
    /\ s = NoSlug \/ \A o \in Titles : slugOf[o] # s
    /\ events' = events + 1
    /\ slugOf' = [slugOf EXCEPT ![t] = s]
    /\ sCalm' = FALSE
    /\ mCalm' = FALSE
    /\ UNCHANGED <<loaded, tasks, ready, online, chapters, dbVars, schedVars, manualVars,
                   sRepeat, mRepeat, mPrevFailed, owed, fetchVars>>

\* The proxy goes down (non-200, timeouts, transport errors) or comes back.
Outage ==
    /\ events < MaxEvents
    /\ events' = events + 1
    /\ online' = ~online
    /\ sCalm' = FALSE
    /\ mCalm' = FALSE
    /\ UNCHANGED <<loaded, tasks, ready, slugOf, chapters, dbVars, schedVars, manualVars,
                   sRepeat, mRepeat, mPrevFailed, owed, fetchVars>>

\* ------------------------------------------------------------ add_manhwa
\* /add_manhwa title: search_slug, then both INSERTs and the commit in one
\* connection. The INSERT raises 'database is locked' while the on-demand
\* connection holds its write transaction.
AddManhwa(user, title) ==
    /\ loaded /\ ready
    /\ events < MaxEvents
    /\ events' = events + 1
    /\ LET slug == SearchSlug(title) IN
        \/ /\ slug = NoSlug
           /\ UNCHANGED <<dbVars, sCalm, mCalm>>
        \/ /\ slug # NoSlug
           /\ mTxn.open
           /\ UNCHANGED <<dbVars, sCalm, mCalm>>
        \/ /\ slug # NoSlug
           /\ ~mTxn.open
           /\ manhwas' = Append(manhwas, [user |-> user, title |-> title,
                                          slug |-> slug])
           /\ tracking' = InsertOrIgnore(tracking, user, title, slug, clock)
           /\ clock' = clock + 1
           /\ sCalm' = (sCalm /\ tracking' = tracking)
           /\ mCalm' = (mCalm /\ tracking' = tracking)
    /\ UNCHANGED <<loaded, tasks, ready, upstreamVars, schedVars, manualVars,
                   sRepeat, mRepeat, mPrevFailed, owed, fetchVars>>

\* -------------------------------------------------- _chapter_check_loop
\* Mutant of AfterRow: the DMs are sent as soon as one update is pending.
AfterRowEager(idx, uu) ==
    IF uu # <<>> THEN "notify"
    ELSE IF idx <= Len(rows) THEN "row" ELSE "idle"

\* Where the loop goes after the row at idx - 1: the next row, the DM phase,
\* or the end of the pass.
AfterRow(idx, uu) ==
    IF idx <= Len(rows) THEN "row"
    ELSE IF uu # <<>> THEN "notify" ELSE "idle"

\* Mutant of LoopMayRun: no wait_until_ready in before_loop.
LoopMayRunUnready == tasks >= 1

\* The loop task runs its body once started by cog_load and once
\* _before_chapter_check (await self.bot.wait_until_ready()) has returned.
LoopMayRun == tasks >= 1 /\ ready

\* Mutant of AfterUser: no try around one user's delivery, a raise ends the
\* DM loop.
AfterUserAbortOnRaise(idx, delivered) ==
    IF delivered /\ idx <= Len(user_updates) THEN "notify" ELSE "idle"

\* Where the DM loop goes after the user at idx - 1, whether the delivery
\* returned or raised into the user's except clause.
AfterUser(idx, delivered) ==
    IF idx <= Len(user_updates) THEN "notify" ELSE "idle"

\* The loop body begins: SELECT all rows.
SchedSelect ==
    /\ LoopMayRun
    /\ sPc = "idle"
    /\ rows' = SelectAll(tracking)
    /\ sIdx' = 1
    /\ latest_info' = NoInfo(NoSlug, FALSE)
    /\ user_updates' = <<>>
    /\ nIdx' = 1
    /\ dm' = [u \in Users |-> <<>>]
    /\ sent' = [u \in Users |-> 0]
    /\ sPc' = IF tracking = <<>> THEN "idle" ELSE "row"
    /\ sRepeat' = sCalm
    /\ sCalm' = ~mTxn.open
    /\ UNCHANGED <<loaded, tasks, ready, upstreamVars, dbVars, manualVars,
                   mRepeat, mCalm, mPrevFailed, owed, fetchVars>>

\* The timer fires (first right after wait_until_ready), counted as one of
\* the behaviour's stimuli.
SchedStart ==
    /\ events < MaxEvents
    /\ events' = events + 1
    /\ SchedSelect

\* The timer fires, every 24 hours for as long as the bot runs.
SchedTick ==
    /\ UNCHANGED events
    /\ SchedSelect

\* One row: get_latest_chapter, the comparison, the append to user_updates.
SchedRow ==
    /\ sPc = "row"
    /\ LET r == rows[sIdx]
           info == GetLatestChapter(r.title, r.slug)
       IN  /\ latest_info' = info
           /\ \/ /\ SchedAdvanced(info, r.chapter)
                 /\ user_updates' = AppendUpdate(user_updates, r.user, info)
                 /\ sPc' = "write"
                 /\ sIdx' = sIdx
              \/ /\ ~SchedAdvanced(info, r.chapter)
                 /\ user_updates' = user_updates
                 /\ sIdx' = sIdx + 1
                 /\ sPc' = AfterRow(sIdx + 1, user_updates)
    /\ UNCHANGED <<loaded, tasks, ready, events, upstreamVars, dbVars, rows,
                   nIdx, dm, sent, manualVars, histVars, fetchVars>>

\* The row's UPDATE and commit on a connection of its own. While the
\* on-demand connection holds its write transaction the UPDATE raises
\* 'database is locked', which the row's except clause swallows.
SchedWrite ==
    /\ sPc = "write"
    /\ LET r == rows[sIdx] IN
        \/ /\ ~mTxn.open
           /\ tracking' = UpdateBySlug(tracking, r.user, r.slug,
                                       latest_info.chapter, clock)
           /\ clock' = clock + 1
           /\ mCalm' = (mCalm /\ tracking' = tracking)
           /\ owed' = owed \cup Raised(tracking, tracking')
        \/ /\ mTxn.open
           /\ UNCHANGED <<tracking, clock, mCalm, owed>>
    /\ sIdx' = sIdx + 1
    /\ sPc' = AfterRow(sIdx + 1, user_updates)
    /\ UNCHANGED <<loaded, tasks, ready, events, upstreamVars, manhwas, rows,
                   latest_info, user_updates, nIdx, dm, sent, manualVars,
                   sRepeat, sCalm, mRepeat, mPrevFailed, fetchVars>>

\* One user's DM: fetch_user and send succeed, or one of them raises and the
\* user's except clause swallows it.
SchedNotify ==
    /\ sPc = "notify"
    /\ \/ /\ dm' = [dm EXCEPT ![user_updates[nIdx].user] =
                                    user_updates[nIdx].updates]
          /\ sent' = [sent EXCEPT ![user_updates[nIdx].user] = @ + 1]
          /\ sPc' = AfterUser(nIdx + 1, TRUE)
          /\ owed' = owed \ Shown(user_updates[nIdx].user,
                                  user_updates[nIdx].updates)
       \/ /\ dm' = dm
          /\ sent' = sent
          /\ sPc' = AfterUser(nIdx + 1, FALSE)
          /\ owed' = owed
    /\ nIdx' = nIdx + 1
    /\ UNCHANGED <<loaded, tasks, ready, events, upstreamVars, dbVars, rows, sIdx,
                   latest_info, user_updates, manualVars,
                   sRepeat, sCalm, mRepeat, mCalm, mPrevFailed, fetchVars>>

\* -------------------------------------------------------- manual_check
\* /manual_check: defer, connect, SELECT the user's rows.
ManualInvoke(user) ==
    /\ loaded /\ ready
    /\ mPc = "idle"
    /\ events < MaxEvents
    /\ events' = events + 1
    /\ mUser' = user
    /\ mRows' = SelectUser(tracking, user)
    /\ mIdx' = 1
    /\ mPending' = NoInfo(NoSlug, FALSE)
    /\ updates' = <<>>
    /\ mTxn' = NoTxn
    /\ \/ /\ SelectUser(tracking, user) = <<>>
          /\ reply' = [kind |-> "not_following", updates |-> <<>>]
          /\ followups' = 1
          /\ mPc' = "idle"
       \/ /\ SelectUser(tracking, user) # <<>>
          /\ reply' = NoReply
          /\ followups' = 0
          /\ mPc' = "row"
    /\ mRepeat' = (mCalm /\ mUser = user)
    /\ mCalm' = TRUE
    /\ mPrevFailed' = (reply.kind = "failed")
    /\ UNCHANGED <<loaded, tasks, ready, upstreamVars, dbVars, schedVars,
                   sRepeat, sCalm, owed, fetchVars>>

\* One row: resolve_slug, get_latest_chapter, the coercion, the comparison
\* and the append to updates.
ManualRow ==
    /\ mPc = "row"
    /\ LET r == mRows[mIdx]
           info == ManualLookup(r.title, r.slug)
       IN  \/ /\ ManualAdvanced(info, r.chapter)
              /\ updates' = Append(updates, info)
              /\ mPending' = info
              /\ mPc' = "write"
              /\ mIdx' = mIdx
           \/ /\ ~ManualAdvanced(info, r.chapter)
              /\ updates' = updates
              /\ mPending' = info
              /\ mIdx' = mIdx + 1
              /\ mPc' = IF mIdx + 1 <= Len(mRows) THEN "row" ELSE "commit"
    /\ UNCHANGED <<loaded, tasks, ready, events, upstreamVars, dbVars, schedVars,
                   mUser, mRows, mTxn, reply, followups, histVars, fetchVars>>

\* The row's UPDATE inside the connection's transaction. A UNIQUE violation
\* raises IntegrityError: it leaves the loop and the connection (rollback),
\* and the outer except replies "failed".
ManualWrite ==
    /\ mPc = "write"
    /\ LET new == UpdateByTitle(ManualView, mUser, mRows[mIdx].title,
                                mPending.chapter, mPending.slug, clock)
       IN  \/ /\ UniquePairs(new)
              /\ mTxn' = [open |-> TRUE, table |-> new]
              /\ clock' = clock + 1
              /\ mIdx' = mIdx + 1
              /\ mPc' = IF mIdx + 1 <= Len(mRows) THEN "row" ELSE "commit"
              /\ reply' = reply
              /\ followups' = followups
              /\ tracking' = tracking
           \/ /\ ~UniquePairs(new)
              /\ tracking' = CloseWithoutCommit(tracking, mTxn)
              /\ mTxn' = NoTxn
              /\ clock' = clock
              /\ mIdx' = mIdx
              /\ mPc' = "idle"
              /\ reply' = [kind |-> "failed", updates |-> <<>>]
              /\ followups' = followups + 1
    /\ sCalm' = FALSE
    /\ UNCHANGED <<loaded, tasks, ready, events, upstreamVars, manhwas,
                   schedVars, mUser, mRows, mPending, updates,
                   sRepeat, mRepeat, mCalm, mPrevFailed, owed, fetchVars>>

\* After the last row: the commit, the connection closes, the followup. The
\* commit of an open transaction can raise (sqlite3.OperationalError: disk
\* I/O error, database is locked): the connection closes without it and the
\* outer except replies "failed".
ManualCommit ==
    /\ mPc = "commit"
    /\ \/ /\ tracking' = ManualView
          /\ reply' = Followup(updates)
          /\ sCalm' = (sCalm /\ ~mTxn.open)
          /\ owed' = (owed \cup Raised(tracking, tracking'))
                        \ Shown(mUser, updates)
       \/ /\ mTxn.open
          /\ tracking' = CloseWithoutCommit(tracking, mTxn)
          /\ reply' = [kind |-> "failed", updates |-> <<>>]
          /\ sCalm' = FALSE
          /\ owed' = owed
    /\ mTxn' = NoTxn
    /\ followups' = followups + 1
    /\ mPc' = "idle"
    /\ UNCHANGED <<loaded, tasks, ready, events, upstreamVars, manhwas, clock,
                   schedVars, mUser, mRows, mIdx, mPending, updates,
                   sRepeat, mRepeat, mCalm, mPrevFailed, fetchVars>>

\* ------------------------------------------------------------------ Next
Next ==
    \/ CogLoad
    \/ BotReady
    \/ \E t \in Titles, list \in ChapterLists : Publish(t, list)
    \/ \E t \in Titles, s \in Slugs \cup {NoSlug} : Reslug(t, s)
    \/ Outage
    \/ \E u \in Users, t \in Titles : AddManhwa(u, t)
    \/ SchedStart
    \/ SchedRow
    \/ SchedWrite
    \/ SchedNotify
    \/ \E u \in Users : ManualInvoke(u)
    \/ ManualRow
    \/ ManualWrite
    \/ ManualCommit

Spec == Init /\ [][Next]_vars

\* ------------------------------------------------- the bot in service
\* The bot some time after start: the cogs loaded, the gateway ready, and
\* title A followed by one user through /add_manhwa (chapter 0, the slug of
\* that day); since then the upstream has re-slugged the title to s3, or not.
InService(spent) ==
    /\ loaded = TRUE
    /\ tasks = 1
    /\ ready = TRUE
    /\ events = spent
    /\ clock = 2
    /\ online = TRUE
    /\ chapters = [t \in Titles |-> <<[kind |-> "num", val |-> 1]>>]
    /\ \E u \in Users, moved \in BOOLEAN :
        LET added == [x \in Titles |-> IF x = "A" THEN "s1" ELSE "s2"]
            t == "A"
        IN  /\ tracking = <<[user |-> u, title |-> t, slug |-> added[t],
                             chapter |-> 0, time |-> 1]>>
            /\ manhwas = <<[user |-> u, title |-> t, slug |-> added[t]]>>
            /\ slugOf = IF moved THEN [added EXCEPT ![t] = "s3"] ELSE added
    /\ sPc = "idle"
    /\ rows = <<>>
    /\ sIdx = 1
    /\ latest_info = NoInfo(NoSlug, FALSE)
    /\ user_updates = <<>>
    /\ nIdx = 1
    /\ dm = [u \in Users |-> <<>>]
    /\ sent = [u \in Users |-> 0]
    /\ mPc = "idle"
    /\ mUser = "u1"
    /\ mRows = <<>>
    /\ mIdx = 1
    /\ mPending = NoInfo(NoSlug, FALSE)
    /\ updates = <<>>
    /\ mTxn = NoTxn
    /\ reply = NoReply
    /\ followups = 0
    /\ sRepeat = FALSE
    /\ sCalm = FALSE
    /\ mRepeat = FALSE
    /\ mCalm = FALSE
    /\ mPrevFailed = FALSE
    /\ owed = {}
    /\ InitFetch

InitRunning == InService(0)

\* Everything that happens once the bot is in service.
NextRunning ==
    \/ \E t \in Titles, list \in ChapterLists : Publish(t, list)
    \/ \E t \in Titles, s \in Slugs \cup {NoSlug} : Reslug(t, s)
    \/ Outage
    \/ \E u \in Users, t \in Titles : AddManhwa(u, t)
    \/ SchedStart
    \/ SchedRow
    \/ SchedWrite
    \/ SchedNotify
    \/ \E u \in Users : ManualInvoke(u)
    \/ ManualRow
    \/ ManualWrite
    \/ ManualCommit

SpecRunning == InitRunning /\ [][NextRunning]_vars

\* ------------------------------------------------- the recurring loop
\* The bot in service with title A followed, the stimuli that led there (the
\* add, the upstream's re-slug) counted as spent.
InitLive == InService(2)

\* The bot with its timer running for good: tasks.loop(hours=24) starts the
\* body again after every pass, whatever else happens.
NextLive ==
    \/ \E t \in Titles, list \in ChapterLists : Publish(t, list)
    \/ \E t \in Titles, s \in Slugs \cup {NoSlug} : Reslug(t, s)
    \/ Outage
    \/ \E u \in Users, t \in Titles : AddManhwa(u, t)
    \/ SchedTick
    \/ SchedRow
    \/ SchedWrite
    \/ SchedNotify
    \/ \E u \in Users : ManualInvoke(u)
    \/ ManualRow
    \/ ManualWrite
    \/ ManualCommit

\* The event loop runs every started coroutine on: the timer fires again and
\* again, and each await of a pass returns (requests time out, a locked
\* database raises after its busy timeout).
SpecLive ==
    /\ InitLive
    /\ [][NextLive]_vars
    /\ WF_vars(SchedTick)
    /\ WF_vars(SchedRow)
    /\ WF_vars(SchedWrite)
    /\ WF_vars(SchedNotify)
    /\ WF_vars(ManualRow)
    /\ WF_vars(ManualWrite)
    /\ WF_vars(ManualCommit)

\* ------------------------------------------------------------ fetch_json
\* retries: int = 2
Retries == 2

\* What one request can do: answer 200 with a JSON body, answer another
\* status, time out, fail in transport, or answer 200 with a body that
\* resp.json() cannot decode.
Outcomes == {"ok", "status", "timeout", "error", "badjson"}

\* Mutant of TrackingCatches: except asyncio.TimeoutError alone.
TrackingCatchesTimeoutOnly(outcome) ==
    outcome = "timeout"

\* Tracking.fetch_json: except asyncio.TimeoutError, then except Exception.
TrackingCatches(outcome) ==
    outcome = "timeout" \/ outcome \in {"error", "badjson"}

\* ManualCheck.fetch_json: except Exception.
ManualCatches(outcome) ==
    outcome \in {"timeout", "error", "badjson"}

\* Tracking.fetch_json, one pass of the for loop's body: where the call goes
\* and what it returns after a request with this outcome.
TrackingHandle(outcome, n) ==
    IF outcome = "ok" THEN [pc |-> "done", result |-> "json"]
    ELSE IF outcome # "status" /\ ~TrackingCatches(outcome)
        THEN [pc |-> "done", result |-> "raised"]
    ELSE IF n <= Retries THEN [pc |-> "sleep", result |-> "pending"]
    ELSE [pc |-> "done", result |-> "none"]

\* ManualCheck.fetch_json: one request, no loop.
ManualHandle(outcome) ==
    IF outcome = "ok" THEN [pc |-> "done", result |-> "json"]
    ELSE IF outcome # "status" /\ ~ManualCatches(outcome)
        THEN [pc |-> "done", result |-> "raised"]
    ELSE [pc |-> "done", result |-> "none"]

\* A caller awaits fetch_json; Tracking's returns None at once without a session.
FetchCall(client) ==
    /\ fPc = "idle"
    /\ fClient' = client
    /\ attempt' = 1
    /\ fLog' = <<>>
    /\ IF client = "tracking" /\ ~loaded
          THEN fPc' = "done" /\ fResult' = "none"
          ELSE fPc' = "get" /\ fResult' = "pending"
    /\ UNCHANGED <<loaded, tasks, ready, events, upstreamVars, dbVars, schedVars,
                   manualVars, histVars>>

\* session.get and resp.json() of one attempt, and the handler that follows.
FetchGet(outcome) ==
    /\ fPc = "get"
    /\ fLog' = Append(fLog, outcome)
    /\ LET h == IF fClient = "tracking" THEN TrackingHandle(outcome, attempt)
                                        ELSE ManualHandle(outcome)
       IN  fPc' = h.pc /\ fResult' = h.result
    /\ UNCHANGED <<loaded, tasks, ready, events, upstreamVars, dbVars, schedVars,
                   manualVars, histVars, fClient, attempt>>

\* await asyncio.sleep(1); continue
FetchSleep ==
    /\ fPc = "sleep"
    /\ attempt' = attempt + 1
    /\ fPc' = "get"
    /\ UNCHANGED <<loaded, tasks, ready, events, upstreamVars, dbVars, schedVars,
                   manualVars, histVars, fClient, fLog, fResult>>

\* The caller takes the result; the next call may start.
FetchReturn ==
    /\ fPc = "done"
    /\ fPc' = "idle"
    /\ attempt' = 1
    /\ fLog' = <<>>
    /\ fResult' = "pending"
    /\ UNCHANGED <<loaded, tasks, ready, events, upstreamVars, dbVars, schedVars,
                   manualVars, histVars, fClient>>

\* The clients on their own, with the cogs loaded and the bot ready.
InitClient ==
    /\ loaded = TRUE
    /\ tasks = 1
    /\ ready = TRUE
    /\ InitStore
    /\ InitFetch

NextFetch ==
    \/ \E c \in {"tracking", "manual"} : FetchCall(c)
    \/ \E o \in Outcomes : FetchGet(o)
    \/ FetchSleep
    \/ FetchReturn

SpecFetch == InitClient /\ [][NextFetch]_vars

\* ================================================================ claims
\* The step of the scheduled pass that looks a row up and compares it.
SchedRowStep == sPc = "row" /\ (sPc' # "row" \/ sIdx' # sIdx)

\* The step of the on-demand pass that looks a row up and compares it.
ManualRowStep == mPc = "row" /\ (mPc' # "row" \/ mIdx' # mIdx)

\* C1. Monotonic progress: every write to latest_chapter_notified stores a
\* value greater than or equal to the value the row held immediately before
\* the write. Rows are never deleted, so a row keeps its position.
MonotonicProgress ==
    [][\A i \in 1..Len(tracking) :
            tracking'[i].chapter >= tracking[i].chapter]_vars

\* C2. In both passes a row produces an update (an entry in the pending list
\* and the store write that follows it) exactly when its lookup succeeded and
\* the looked-up number is strictly greater than the latest_chapter_notified
\* the pass read for the row; an equal or lower number leaves the pending
\* list alone and goes on to the next row without a write.
UpdateIffStrictlyGreater ==
    [][ /\ SchedRowStep =>
            LET r == rows[sIdx]
                fires == latest_info'.ok /\ latest_info'.chapter > r.chapter
            IN  /\ fires =>
                    /\ sPc' = "write"
                    /\ user_updates' = AppendUpdate(user_updates, r.user,
                                                    latest_info')
                /\ ~fires =>
                    /\ sPc' # "write"
                    /\ sIdx' = sIdx + 1
                    /\ user_updates' = user_updates
        /\ ManualRowStep =>
            LET r == mRows[mIdx]
                fires == mPending'.ok /\ mPending'.chapter > r.chapter
            IN  /\ fires =>
                    /\ mPc' = "write"
                    /\ updates' = Append(updates, mPending')
                /\ ~fires =>
                    /\ mPc' # "write"
                    /\ mIdx' = mIdx + 1
                    /\ updates' = updates
        /\ (sPc' = "write" /\ sPc # "write") => SchedRowStep
        /\ (mPc' = "write" /\ mPc # "write") => ManualRowStep
        /\ tracking' # tracking =>
               \/ sPc = "write"
               \/ mPc = "commit"
               \/ Len(manhwas') > Len(manhwas)
      ]_vars

\* C2 witness: the scheduled pass has found its second row advanced and is
\* about to write it, after its first row, of another user and with stored
\* progress, produced no update.
UpdateIffStrictlyGreaterWitness ==
    /\ sPc = "write"
    /\ sIdx = 2
    /\ latest_info.chapter > rows[2].chapter
    /\ rows[1].chapter >= 1
    /\ rows[1].user # rows[2].user
    /\ Len(user_updates) = 1
    /\ user_updates[1].user = rows[2].user

\* C3. Idempotence of a check pass: a pass that directly follows a completed
\* pass of the same kind (for the on-demand pass: of the same user, and one
\* that did not end "failed", which persists nothing), with no upstream
\* change, add or write of the other pass since the first one began, yields
\* no update and no notification. For the scheduled pass: no pending entry,
\* no write, no DM. For the on-demand pass: no summary, no entry in updates,
\* no UPDATE and no change to the user's committed rows.
CheckPassIdempotent ==
    /\ (sRepeat /\ sCalm) =>
        /\ user_updates = <<>>
        /\ sPc \in {"idle", "row"}
        /\ \A u \in Users : dm[u] = <<>>
    /\ (mRepeat /\ mCalm /\ ~mPrevFailed) =>
        /\ reply.kind # "summary"
        /\ mPc = "idle" => SelectUser(tracking, mUser) = mRows
        /\ updates = <<>> /\ mPc # "write" /\ ~mTxn.open

\* C3 witness: a second scheduled pass in succession has gone through every
\* row; the first pass had stored progress for the first row.
CheckPassIdempotentWitness ==
    /\ sRepeat /\ sCalm
    /\ sPc = "idle"
    /\ Len(rows) >= 1
    /\ sIdx > Len(rows)
    /\ rows[1].chapter >= 1
    /\ latest_info.ok

\* C4. Row-level failure isolation: an exception raised while one row is
\* processed stays at that row, so no pass ends leaving a later row
\* unprocessed.
RowFailureIsolated ==
    /\ sPc \in {"idle", "notify"} => sIdx >= Len(rows)
    /\ mPc = "idle" => mIdx >= Len(mRows)

\* C5. A row whose stored slug fails and whose title search fails or is empty
\* is skipped: the pass goes on to the next row without an exception, records
\* no pending update, and the row's chapter number, slug and timestamp stay
\* as they are.
UnresolvedRowSkipped ==
    [][ /\ ( /\ SchedRowStep
             /\ ApiComic(rows[sIdx].slug) = NoHid
             /\ ApiSearch(rows[sIdx].title) = NoSlug ) =>
            /\ ~latest_info'.ok
            /\ user_updates' = user_updates
            /\ tracking' = tracking
            /\ sIdx' = sIdx + 1
            /\ sPc' # "write"
        /\ ( /\ ManualRowStep
             /\ ApiSlugChapters(mRows[mIdx].slug) = <<>>
             /\ ApiSearch(mRows[mIdx].title) = NoSlug ) =>
            /\ ~mPending'.ok
            /\ updates' = updates
            /\ tracking' = tracking
            /\ mTxn' = mTxn
            /\ mIdx' = mIdx + 1
            /\ mPc' \in {"row", "commit"}
            /\ reply' = reply
      ]_vars

\* C5 witness: both passes have skipped the only row, unresolved after the
\* title search; the row is as the add left it.
UnresolvedRowSkippedWitness ==
    /\ Len(tracking) = 1
    /\ tracking[1].chapter = 0 /\ tracking[1].time = 1
    /\ Len(rows) = 1 /\ sIdx = 2 /\ sPc = "idle"
    /\ latest_info = NoInfo(NoSlug, TRUE)
    /\ user_updates = <<>>
    /\ Len(mRows) = 1 /\ mIdx = 2 /\ mPc = "idle"
    /\ mPending = NoInfo(NoSlug, TRUE)
    /\ updates = <<>>
    /\ reply.kind = "no_new"

\* C6. fetch_json never raises to its caller: whatever each request does
\* (non-200 status, timeout, transport error, undecodable body), the call
\* ends with the decoded JSON or with None.
FetchNeverRaises ==
    /\ fResult # "raised"
    /\ fPc = "done" => fResult \in {"json", "none"}

\* C6 witness: Tracking's client has returned None after a timeout, an
\* undecodable body and a transport error.
FetchNeverRaisesWitness ==
    /\ fPc = "done"
    /\ fClient = "tracking"
    /\ fLog = <<"timeout", "badjson", "error">>
    /\ fResult = "none"

\* C7. Bounded retry: a call makes at most Retries + 1 requests, returns None
\* only after the last of them (request Retries + 1) has failed, and returns
\* the JSON of the first successful request without a further one.
BoundedRetry ==
    /\ Len(fLog) <= Retries + 1
    /\ (fPc = "done" /\ fResult = "none") =>
        /\ Len(fLog) = Retries + 1
        /\ \A i \in 1..Len(fLog) : fLog[i] # "ok"
    /\ (fPc = "done" /\ fResult = "json") =>
        /\ fLog[Len(fLog)] = "ok"
        /\ \A i \in 1..(Len(fLog) - 1) : fLog[i] # "ok"

\* C8. Resolver property: when the request made with the stored slug
\* succeeds, the resolution returns the stored slug and issues no title
\* search (get_latest_chapter of the scheduled pass, resolve_slug of the
\* on-demand pass).
ResolverKeepsValidSlug ==
    [][ /\ (SchedRowStep /\ ApiComic(rows[sIdx].slug) # NoHid) =>
            /\ latest_info'.slug = rows[sIdx].slug
            /\ ~latest_info'.searched
        /\ (ManualRowStep /\ ApiSlugChapters(mRows[mIdx].slug) # <<>>) =>
            /\ mPending'.slug = mRows[mIdx].slug
            /\ ~mPending'.searched
      ]_vars

\* C8 witness: both passes hold a successful lookup made with the stored
\* slug, without a search.
ResolverKeepsValidSlugWitness ==
    /\ sPc = "write"
    /\ latest_info.ok /\ ~latest_info.searched
    /\ latest_info.slug = rows[sIdx].slug
    /\ mPc = "write"
    /\ mPending.ok /\ ~mPending.searched
    /\ mPending.slug = mRows[mIdx].slug

\* C9. Several users tracking one title: the scheduled pass queues an entry
\* for a user exactly when that user's own row, as the pass read it, is
\* strictly behind the looked-up chapter; a DM carries exactly the entries
\* queued for its user; and the pass's write touches no row of another user
\* (nor another row of the same user).
OnlyBehindUsersNotified ==
    [][ /\ \A k \in 1..Len(user_updates') :
            \A e \in 1..Len(user_updates'[k].updates) :
                \E i \in 1..Len(rows') :
                    /\ rows'[i].user = user_updates'[k].user
                    /\ rows'[i].title = user_updates'[k].updates[e].title
                    /\ rows'[i].chapter < user_updates'[k].updates[e].chapter
        /\ \A u \in Users :
            dm'[u] # <<>> =>
                \E k \in 1..Len(user_updates') :
                    /\ user_updates'[k].user = u
                    /\ dm'[u] = user_updates'[k].updates
        /\ ( /\ SchedRowStep
             /\ latest_info'.ok
             /\ latest_info'.chapter > rows[sIdx].chapter ) =>
                \E k \in 1..Len(user_updates') :
                    /\ user_updates'[k].user = rows[sIdx].user
                    /\ user_updates'[k].updates[Len(user_updates'[k].updates)]
                           = latest_info'
        /\ (sPc = "write" /\ sPc' # "write") =>
            \A i \in 1..Len(tracking) :
                ( \/ tracking[i].user # rows[sIdx].user
                  \/ tracking[i].slug # rows[sIdx].slug ) =>
                    tracking'[i] = tracking[i]
      ]_vars

\* C9 witness: two users track one title; the pass has ended with a DM for
\* the user who was behind and nothing for the user who was not, whose row is
\* as the pass read it.
OnlyBehindUsersNotifiedWitness ==
    /\ sPc = "idle"
    /\ Len(user_updates) = 1
    /\ \E i, j \in 1..Len(rows) :
        /\ rows[i].title = rows[j].title
        /\ rows[i].user # rows[j].user
        /\ rows[j].chapter >= 1
        /\ dm[rows[i].user] # <<>>
        /\ dm[rows[i].user][1].chapter > rows[i].chapter
        /\ dm[rows[i].user][1].chapter = rows[j].chapter
        /\ dm[rows[j].user] = <<>>
        /\ SelectAll(tracking)[j] = rows[j]
        /\ tracking[i].chapter = dm[rows[i].user][1].chapter

\* C10. A duplicate add does not reset progress: an add whose (user, slug)
\* pair already has a tracking row leaves the whole tracking table as it is
\* (that row's chapter number, slug and title, and no second row).
DuplicateAddKeepsProgress ==
    [][ Len(manhwas') > Len(manhwas) =>
            LET a == manhwas'[Len(manhwas')]
            IN  (\E i \in 1..Len(tracking) :
                    tracking[i].user = a.user /\ tracking[i].slug = a.slug)
                => tracking' = tracking
      ]_vars

\* C10 witness: a user has added the same (user, slug) twice and the pair's
\* single tracking row holds progress made by a check.
DuplicateAddKeepsProgressWitness ==
    /\ \E i, j \in 1..Len(manhwas) :
        /\ i < j
        /\ manhwas[i].user = manhwas[j].user
        /\ manhwas[i].slug = manhwas[j].slug
        /\ \E k \in 1..Len(tracking) :
            /\ tracking[k].user = manhwas[j].user
            /\ tracking[k].slug = manhwas[j].slug
            /\ tracking[k].chapter >= 1
    /\ UniquePairs(tracking)

\* C11. When a row advances through the search fallback, the store write
\* refreshes the row's slug: every row the write changes holds the slug the
\* resolver reached, in the scheduled pass (the UPDATE and its commit) as in
\* the on-demand pass (the UPDATE inside the transaction).
SlugRefreshedOnUpdate ==
    [][ /\ (sPc = "write" /\ sPc' # "write" /\ latest_info.searched) =>
            \A i \in 1..Len(tracking) :
                tracking'[i] # tracking[i] =>
                    tracking'[i].slug = latest_info.slug
        /\ (mPc = "write" /\ mIdx' = mIdx + 1 /\ mPending.searched) =>
            \A i \in 1..Len(mTxn'.table) :
                ( /\ mTxn'.table[i].user = mUser
                  /\ mTxn'.table[i].title = mRows[mIdx].title ) =>
                    mTxn'.table[i].slug = mPending.slug
      ]_vars

\* C12. Delivery-failure isolation: in the DM phase of a scheduled pass each
\* step handles one pending user and, whether that user's delivery returned
\* or raised, goes on to the next pending user and ends only after the last;
\* it leaves every other user's deliveries as they are; and no user is sent
\* more than one message in a pass.
DeliveryFailureIsolated ==
    [][ (sPc = "notify" /\ nIdx' # nIdx) =>
            LET uid == user_updates[nIdx].user
            IN  /\ nIdx' = nIdx + 1
                /\ (sPc' = "notify") <=> (nIdx + 1 <= Len(user_updates))
                /\ (sPc' = "idle") <=> (nIdx + 1 > Len(user_updates))
                /\ sent'[uid] \in {0, 1}
                /\ sent'[uid] = 1 => dm'[uid] = user_updates[nIdx].updates
                /\ \A u \in Users \ {uid} :
                       sent'[u] = sent[u] /\ dm'[u] = dm[u]
      ]_vars

\* C12 witness: the pass has ended with two pending users; the delivery to
\* the first raised, and the second was sent its one message.
DeliveryFailureIsolatedWitness ==
    /\ sPc = "idle"
    /\ Len(user_updates) = 2
    /\ nIdx = 3
    /\ sent[user_updates[1].user] = 0
    /\ dm[user_updates[1].user] = <<>>
    /\ sent[user_updates[2].user] = 1
    /\ dm[user_updates[2].user] = user_updates[2].updates

\* C13. The two passes are not serialised. Each pass keeps the rows it read
\* at its start and compares every lookup against the value read then,
\* whatever the table holds by now; each write stores the writer's value
\* whatever the row holds (the scheduled UPDATE whenever the database is not
\* locked, the on-demand UPDATEs at the commit), so the last writer wins.
LastWriterWins ==
    [][ /\ sPc # "idle" => rows' = rows
        /\ mPc # "idle" => mRows' = mRows
        /\ SchedRowStep =>
            ( sPc' = "write" <=>
                (latest_info'.ok /\ latest_info'.chapter > rows[sIdx].chapter) )
        /\ ManualRowStep =>
            ( mPc' = "write" <=>
                (mPending'.ok /\ mPending'.chapter > mRows[mIdx].chapter) )
        /\ (sPc = "write" /\ sPc' # "write" /\ ~mTxn.open) =>
            \A i \in 1..Len(tracking) :
                ( /\ tracking[i].user = rows[sIdx].user
                  /\ tracking[i].slug = rows[sIdx].slug ) =>
                    /\ tracking'[i].chapter = latest_info.chapter
                    /\ tracking'[i].time = clock
        /\ (mPc = "commit" /\ mPc' = "idle" /\ reply'.kind # "failed") =>
            \A k \in 1..Len(updates) :
                \A i \in 1..Len(tracking') :
                    ( /\ tracking'[i].user = mUser
                      /\ tracking'[i].title = updates[k].title ) =>
                        tracking'[i].chapter = updates[k].chapter
      ]_vars

\* C13 witness: both passes read one row before either wrote it; both found
\* the same chapter ahead of what they had read, both wrote it, and both
\* surfaced it (the on-demand summary and the scheduled DM).
LastWriterWinsWitness ==
    /\ sPc = "idle" /\ mPc = "idle"
    /\ reply.kind = "summary"
    /\ \E i \in 1..Len(rows), j \in 1..Len(mRows) :
        /\ rows[i].user = mUser
        /\ rows[i].title = mRows[j].title
        /\ rows[i].slug = mRows[j].slug
        /\ rows[i].chapter = mRows[j].chapter
        /\ tracking[i].chapter > rows[i].chapter
        /\ \E a \in 1..Len(dm[mUser]), b \in 1..Len(reply.updates) :
            /\ dm[mUser][a].title = rows[i].title
            /\ reply.updates[b].title = rows[i].title
            /\ dm[mUser][a].chapter = reply.updates[b].chapter
            /\ tracking[i].chapter = dm[mUser][a].chapter

\* C14. The scheduled pass starts only after the bot has become ready: a pass
\* in progress, or the record of a pass that has begun (sCalm is set only by
\* the pass's SELECT, rows are only read by it), implies that
\* wait_until_ready has returned and that cog_load has started the task; and
\* cog_load starts at most one loop task.
ScheduledPassAfterReady ==
    /\ (sPc # "idle" \/ sCalm \/ sRepeat \/ rows # <<>>) => (ready /\ loaded)
    /\ tasks <= 1
    /\ loaded => tasks = 1

\* C14 witness: a scheduled pass has read the tracking table and is at its
\* first row, with the bot ready and one loop task started.
ScheduledPassAfterReadyWitness ==
    /\ ready
    /\ tasks = 1
    /\ sPc = "row"
    /\ sIdx = 1
    /\ rows = SelectAll(tracking)
    /\ rows # <<>>

\* C15. Every on-demand check ends with exactly one followup and never a raw
\* error: nothing is sent while the check runs, and once it has ended exactly
\* one followup was sent, which is "not following" exactly when the user has
\* no rows, "failed" exactly when an exception ended the pass (raised by an
\* UPDATE or by the commit, hence after a row had advanced),
\* "no new chapters" when every row was gone through and none advanced, and
\* otherwise the summary of the pass's updates, whose count is the number of
\* rows the pass's transaction wrote.
OneOutcomePerCheck ==
    [][ /\ mPc' # "idle" => (followups' = 0 /\ reply' = NoReply)
        /\ mPc' = "idle" =>
            \/ /\ followups' = 0 /\ reply' = NoReply
               /\ mRows' = <<>> /\ updates' = <<>> /\ ~mCalm'
            \/ /\ followups' = 1
               /\ \/ /\ reply'.kind = "not_following"
                     /\ mRows' = <<>>
                  \/ /\ reply'.kind = "failed"
                     /\ mRows' # <<>>
                     /\ updates' # <<>>
                     /\ ~mTxn'.open
                  \/ /\ reply'.kind = "no_new"
                     /\ mRows' # <<>> /\ mIdx' > Len(mRows')
                     /\ updates' = <<>>
                  \/ /\ reply'.kind = "summary"
                     /\ mRows' # <<>> /\ mIdx' > Len(mRows')
                     /\ updates' # <<>>
                     /\ reply'.updates = updates'
        /\ (mPc = "commit" /\ mPc' = "idle" /\ reply'.kind = "summary") =>
            Len(reply'.updates) =
                Cardinality({i \in 1..Len(tracking) : tracking'[i] # tracking[i]})
      ]_vars

\* C15 witness: a check of a user with two rows has ended with one followup,
\* the summary of two updates, both rows holding the new chapters.
OneOutcomePerCheckWitness ==
    /\ mPc = "idle"
    /\ followups = 1
    /\ reply.kind = "summary"
    /\ Len(mRows) = 2
    /\ Len(reply.updates) = 2
    /\ \A k \in 1..2 :
        \E i \in 1..Len(tracking) :
            /\ tracking[i].user = mUser
            /\ tracking[i].title = reply.updates[k].title
            /\ tracking[i].chapter = reply.updates[k].chapter
            /\ tracking[i].chapter > mRows[k].chapter

\* The entries pending for a user are rows of that user the pass read, each
\* behind the entry's chapter; at most one list per user.
PendingListsWellFormed ==
    /\ \A k, l \in 1..Len(user_updates) :
        user_updates[k].user = user_updates[l].user => k = l
    /\ \A k \in 1..Len(user_updates) :
        /\ user_updates[k].updates # <<>>
        /\ \A e \in 1..Len(user_updates[k].updates) :
            \E i \in 1..Len(rows) :
                /\ i < sIdx \/ (i = sIdx /\ sPc = "write")
                /\ rows[i].user = user_updates[k].user
                /\ rows[i].title = user_updates[k].updates[e].title
                /\ rows[i].chapter < user_updates[k].updates[e].chapter

\* C16, as stated. Fan-out of the scheduled pass: no message is sent before
\* every row of the pass has been examined; when the pass has ended every
\* user with a pending list has received exactly one message, whose entries
\* are that user's pending list (rows of that user that advanced), and every
\* other user has received none.
FanOutAfterFullPass ==
    /\ PendingListsWellFormed
    /\ (\E u \in Users : sent[u] > 0 \/ dm[u] # <<>>) => sIdx > Len(rows)
    /\ sPc = "notify" => sIdx > Len(rows)
    /\ (sPc = "idle" /\ sIdx > Len(rows)) =>
        \A u \in Users :
            IF \E k \in 1..Len(user_updates) : user_updates[k].user = u
                THEN /\ sent[u] = 1
                     /\ \E k \in 1..Len(user_updates) :
                            /\ user_updates[k].user = u
                            /\ dm[u] = user_updates[k].updates
                ELSE sent[u] = 0 /\ dm[u] = <<>>

\* C16, amended. As above, except that a user with a pending list receives
\* the one message unless fetch_user or send raised for that user: every
\* pending user's delivery is attempted once, after the last row; a user
\* whose delivery returned has exactly one message carrying the whole pending
\* list; a user whose delivery raised has none.
FanOutAfterFullPassUnlessRaised ==
    /\ PendingListsWellFormed
    /\ (\E u \in Users : sent[u] > 0 \/ dm[u] # <<>>) => sIdx > Len(rows)
    /\ sPc = "notify" => (sIdx > Len(rows) /\ nIdx <= Len(user_updates))
    /\ (sPc = "idle" /\ sIdx > Len(rows)) =>
        /\ user_updates # <<>> => nIdx = Len(user_updates) + 1
        /\ \A u \in Users :
            IF \E k \in 1..Len(user_updates) : user_updates[k].user = u
                THEN /\ sent[u] \in {0, 1}
                     /\ sent[u] = 0 => dm[u] = <<>>
                     /\ sent[u] = 1 =>
                            \E k \in 1..Len(user_updates) :
                                /\ user_updates[k].user = u
                                /\ dm[u] = user_updates[k].updates
                ELSE sent[u] = 0 /\ dm[u] = <<>>

\* C16 witness: a pass over three rows has ended; one user had two rows
\* advance and the other one; each received one message, carrying exactly
\* the user's own entries.
FanOutAfterFullPassWitness ==
    /\ sPc = "idle"
    /\ Len(rows) = 3
    /\ sIdx = 4
    /\ Len(user_updates) = 2
    /\ \E k \in 1..2 : Len(user_updates[k].updates) = 2
    /\ \A k \in 1..2 :
        /\ sent[user_updates[k].user] = 1
        /\ dm[user_updates[k].user] = user_updates[k].updates
        /\ \A e \in 1..Len(user_updates[k].updates) :
            \E i \in 1..3 :
                /\ rows[i].user = user_updates[k].user
                /\ rows[i].title = user_updates[k].updates[e].title

\* C17. A latest chapter whose number is missing or not coercible never
\* changes stored progress and never yields an update. Scheduled path: the
\* lookup succeeds with chapter 0.0, stored progress is never below 0, so the
\* row is passed over without an entry or a write. On-demand path: the row is
\* skipped (continue) without an entry or a write.
UncoercibleNumberIgnored ==
    [][ /\ \A i \in 1..Len(tracking) : tracking[i].chapter >= 0
        /\ ( /\ SchedRowStep
             /\ latest_info'.ok
             /\ ApiChapters(ApiComic(latest_info'.slug))[1].kind # "num" ) =>
                /\ latest_info'.chapter = 0
                /\ sPc' # "write"
                /\ sIdx' = sIdx + 1
                /\ user_updates' = user_updates
                /\ tracking' = tracking
        /\ ( /\ ManualRowStep
             /\ mPending'.slug # NoSlug
             /\ ApiSlugChapters(mPending'.slug) # <<>>
             /\ ApiSlugChapters(mPending'.slug)[1].kind # "num" ) =>
                /\ ~mPending'.ok
                /\ mPc' # "write"
                /\ mIdx' = mIdx + 1
                /\ updates' = updates
                /\ mTxn' = mTxn
                /\ tracking' = tracking
      ]_vars

\* C17 witness: the upstream serves a latest chapter without a usable number;
\* both passes have gone over the row, the scheduled one with chapter 0.0 and
\* the on-demand one skipping it, and the row is as the add left it.
UncoercibleNumberIgnoredWitness ==
    /\ Len(tracking) = 1
    /\ tracking[1].chapter = 0 /\ tracking[1].time = 1
    /\ online
    /\ chapters[tracking[1].title] # <<>>
    /\ chapters[tracking[1].title][1].kind # "num"
    /\ sPc = "idle" /\ Len(rows) = 1 /\ sIdx = 2
    /\ latest_info.ok /\ latest_info.chapter = 0
    /\ user_updates = <<>>
    /\ mPc = "idle" /\ Len(mRows) = 1 /\ mIdx = 2
    /\ ~mPending.ok /\ mPending.slug = tracking[1].slug
    /\ updates = <<>>
    /\ reply.kind = "no_new"

\* C18. Uniqueness invariant of the tracking store: in every reachable state
\* no two rows of chapter_tracking have the same (user_id, manhwa_slug), in
\* the committed table as in the on-demand connection's open transaction.
UniqueUserSlug ==
    /\ \A i, j \in 1..Len(tracking) :
        ( /\ tracking[i].user = tracking[j].user
          /\ tracking[i].slug = tracking[j].slug ) => i = j
    /\ mTxn.open =>
        \A i, j \in 1..Len(mTxn.table) :
            ( /\ mTxn.table[i].user = mTxn.table[j].user
              /\ mTxn.table[i].slug = mTxn.table[j].slug ) => i = j

\* C18 witness: an on-demand pass has committed an update found through the
\* search fallback, rewriting the slug of one of the user's two rows to a slug
\* the user never added.
UniqueUserSlugWitness ==
    /\ mPc = "idle"
    /\ reply.kind = "summary"
    /\ Len(SelectUser(tracking, mUser)) = 2
    /\ \E b \in 1..Len(reply.updates) :
        /\ reply.updates[b].searched
        /\ \E i \in 1..Len(tracking) :
            /\ tracking[i].user = mUser
            /\ tracking[i].title = reply.updates[b].title
            /\ tracking[i].slug = reply.updates[b].slug
        /\ \A m \in 1..Len(manhwas) :
            ~(manhwas[m].user = mUser /\ manhwas[m].slug = reply.updates[b].slug)

\* The rowid position in chapter_tracking of the k-th row of a user (rows are
\* never deleted, so a row keeps its position).
RowOf(t, user, k) ==
    CHOOSE i \in 1..Len(t) :
        /\ t[i].user = user
        /\ Cardinality({j \in 1..i : t[j].user = user}) = k

\* C19. Frame of a progress update: the write a pass makes because one row
\* advanced changes that row only (the row the pass read at this position);
\* every other row, of the same user or of another, keeps its chapter number,
\* slug and timestamp. Scheduled pass: the UPDATE and its commit. On-demand
\* pass: the UPDATE inside the transaction.
UpdateChangesOneRow ==
    [][ /\ (sPc = "write" /\ sPc' # "write") =>
            \A i \in 1..Len(tracking) :
                i # sIdx => tracking'[i] = tracking[i]
        /\ (mPc = "write" /\ mIdx' = mIdx + 1) =>
            \A i \in 1..Len(tracking) :
                i # RowOf(tracking, mUser, mIdx) => mTxn'.table[i] = ManualView[i]
      ]_vars

\* C20. Notified implies persisted in the scheduled pass: when the pass ends,
\* for every entry placed in a user's pending list the user's row of that
\* title holds the entry's chapter number (or a later one).
NotifiedImpliesPersisted ==
    [][ (sPc # "idle" /\ sPc' = "idle") =>
            \A k \in 1..Len(user_updates') :
                \A e \in 1..Len(user_updates'[k].updates) :
                    \E i \in 1..Len(tracking') :
                        /\ tracking'[i].user = user_updates'[k].user
                        /\ tracking'[i].title = user_updates'[k].updates[e].title
                        /\ tracking'[i].chapter >=
                               user_updates'[k].updates[e].chapter
      ]_vars

\* C21. The on-demand pass is all-or-nothing. No step of the row loop changes
\* the committed table; the commit comes once, after the last row; a pass
\* that ends by an exception (raised by an UPDATE or by the commit) leaves
\* the committed table as it was and replies "failed"; a pass whose commit
\* succeeded persists all its updates in that one step, and only then is the
\* list of updates shown.
AllOrNothing ==
    [][ /\ ManualRowStep => tracking' = tracking
        /\ (mPc = "write" /\ (mIdx' # mIdx \/ mPc' # "write")) =>
               tracking' = tracking
        /\ mPc' = "commit" => mIdx' > Len(mRows')
        /\ (mPc # "idle" /\ mPc' = "idle") =>
            /\ ~mTxn'.open
            /\ reply'.kind \in {"failed", "no_new", "summary"}
            /\ reply'.kind = "failed" => tracking' = tracking
            /\ reply'.kind # "failed" =>
                /\ mPc = "commit"
                /\ tracking' = ManualView
            /\ reply'.kind = "summary" =>
                /\ reply'.updates = updates
                /\ \A k \in 1..Len(updates) :
                    \E i \in 1..Len(tracking') :
                        /\ tracking'[i].user = mUser
                        /\ tracking'[i].title = updates[k].title
                        /\ tracking'[i].slug = updates[k].slug
                        /\ tracking'[i].chapter = updates[k].chapter
      ]_vars

\* C21 witness: a pass found both of the user's rows advanced and wrote them
\* in its transaction; the commit raised; the pass has replied "failed" and
\* the user's rows are as the pass read them.
AllOrNothingWitness ==
    /\ mPc = "idle"
    /\ reply.kind = "failed"
    /\ followups = 1
    /\ Len(mRows) = 2
    /\ Len(updates) = 2
    /\ mIdx = 3
    /\ ~mTxn.open
    /\ SelectUser(tracking, mUser) = mRows
    /\ \A k \in 1..2 : updates[k].chapter > mRows[k].chapter

\* C22. No lost notification: whenever a pass has persisted a higher
\* latest_chapter_notified for a user's row, that chapter of that title is
\* eventually surfaced to the user, by a DM of a scheduled pass or by the
\* summary of an on-demand pass.
NoLostNotification ==
    \A x \in Users \X Titles \X (1..MaxChap) :
        (x \in owed) ~> (x \notin owed)

====
